---- MODULE Spec2Model ----
(***************************************************************************)
(* A model of thezombies/tasks.py: the celery tasks that crawl an agency's *)
(* data catalog (create_data_crawl_report, inspect_data_catalog_item,       *)
(* inspect_data_catalog_item_url) and that validate the catalogs of all    *)
(* agencies (report_for_agency_url, parse_json_from_response,              *)
(* validate_json_catalog, save_response_info), over the two tables they    *)
(* write: Report and URLInspection; and of the tasks that are functions of  *)
(* their arguments (check_and_correct_url, request_url, parse_json) and of *)
(* the class ResultDict, called directly.                                  *)
(*                                                                         *)
(* Python values: a dict is a function from its keys; None is the string   *)
(* "None" for strings, the id 0 for database ids and a record of kind      *)
(* "None" for responses, contents and JSON values.  A ResultDict is a dict *)
(* that also has the key "_errors", standing for its attribute _errors.    *)
(* Task arguments travel between tasks unchanged (celery's pickle          *)
(* serializer keeps a ResultDict a ResultDict).                            *)
(***************************************************************************)
EXTENDS Naturals, Integers, Sequences, FiniteSets, TLC

VARIABLES
    reports,      \* table Report: row id = position
    inspections,  \* table URLInspection: row id = position
    crawl,        \* the create_data_crawl_report task
    itemTasks,    \* inspect_data_catalog_item tasks, by item position
    urlTasks,     \* inspect_data_catalog_item_url tasks, by <<item, n>>
    chains,       \* validate_data_catalogs: one chain per agency
    catalog_schema, \* the schema loaded when the module was imported, or None
    call          \* a task called directly: its arguments and what it returned

vars == <<reports, inspections, crawl, itemTasks, urlTasks, chains, catalog_schema, call>>

----------------------------------------------------------------------------
(* Bounds *)

\* the longest catalog of items with one accessURL each
MaxItems == 3
\* the largest number of schema violations of a served catalog
MaxViolations == 150
\* the day (a day number) on which the tasks run
Today == 40
\* the most calls made on one ResultDict after it is built
MaxCalls == 3

----------------------------------------------------------------------------
(* Python values *)

None == "None"
NoId == 0
NoResponse == [kind |-> "None"]
NoContent == [kind |-> "None"]
NoJson == [kind |-> "None"]
EmptyDict == [k \in {} |-> None]

Get(d, k, default) == IF k \in DOMAIN d THEN d[k] ELSE default
Put(d, k, v) == [x \in DOMAIN d \cup {k} |-> IF x = k THEN v ELSE d[x]]
Update(d, e) == [x \in DOMAIN d \cup DOMAIN e |-> IF x \in DOMAIN e THEN e[x] ELSE d[x]]
Pop(d, k) == [x \in DOMAIN d \ {k} |-> d[x]]

\* truth value of a string or None
TruthyStr(s) == s # None /\ s # ""
\* truth value of a JSON value: None and the empty array are false
TruthyJson(j) == j.kind = "array" /\ Len(j.items) > 0
\* requests.Response.__bool__ is Response.ok
TruthyResponse(r) == r.kind = "response" /\ r.status_code < 400

Err(name) == [error |-> name, n |-> 0]

\* no task is called directly
NoCall == [task |-> None, pc |-> "idle"]

----------------------------------------------------------------------------
(* ResultDict *)

\* ResultDict, had it started from an empty list whatever the data
ResultDict_without_errors(data) ==
    [k \in DOMAIN data \cup {"errors", "_errors"} |->
        IF k \in {"errors", "_errors"} THEN <<>> ELSE data[k]]

\* ResultDict(data): the errors of data, when data has the attribute errors
ResultDict(data) ==
    LET errs == IF "_errors" \in DOMAIN data THEN data["_errors"] ELSE <<>>
    IN [k \in DOMAIN data \cup {"errors", "_errors"} |->
            IF k \in {"errors", "_errors"} THEN errs ELSE data[k]]

add_error(rd, e) ==
    [rd EXCEPT !["_errors"] = Append(rd["_errors"], e),
               !["errors"] = Append(rd["_errors"], e)]

\* returnval.errors.extend(es): _errors and the key 'errors' are one list
extend_errors(rd, es) ==
    [rd EXCEPT !["_errors"] = rd["_errors"] \o es,
               !["errors"] = rd["_errors"] \o es]

----------------------------------------------------------------------------
(* The requests library and the web *)

AgencyIds == {1, 2}
AgencyUrl(a) == IF a = 1 THEN "http://epa.gov/data.json" ELSE "nasa.gov/data.json"

\* the urls without a scheme
Schemeless == {"", "b.gov/data", "nasa.gov/data.json", "epa.gov"}

\* requests.Request.prepare(): "ok" or the exception it raises
Prepare(url) ==
    CASE url \in Schemeless -> "MissingSchema"
      [] url = "http://" -> "InvalidURL"
      [] OTHER -> "ok"

\* preq.url, the url as prepared: a url with a host and no path gets the
\* path "/"
PreparedUrl(url) == IF url = "http://epa.gov" THEN "http://epa.gov/" ELSE url

\* check_and_correct_url, had the url been returned as given after a
\* MissingSchema
check_and_correct_url_no_retry(url) ==
    LET r0 == ResultDict([initial_url |-> url])
    IN  IF Prepare(url) = "ok" THEN r0 ELSE add_error(r0, Err(Prepare(url)))

check_and_correct_url(url) ==
    LET r0 == ResultDict([initial_url |-> url])
    IN  CASE Prepare(url) = "ok" -> r0
          [] Prepare(url) = "MissingSchema" ->
                LET r1 == add_error(r0, Err("MissingSchema"))
                    new_url == "http://" \o url
                IN  IF Prepare(new_url) = "ok"
                    THEN Put(r1, "corrected_url", PreparedUrl(new_url))
                    ELSE add_error(r1, Err(Prepare(new_url)))
          [] OTHER -> add_error(r0, Err(Prepare(url)))

ItemOk == [title |-> "ok", accessURL |-> "http://a.gov/data.csv"]
ItemDown == [title |-> "down", accessURL |-> "b.gov/data"]
ItemWs == [title |-> "ws", webService |-> "http://c.gov/api"]
ItemBare == [title |-> "bare"]
ItemDist ==
    [title |-> "dist",
     distribution |-> <<[accessURL |-> "http://a.gov/d1"], [accessURL |-> "http://a.gov/d2"]>>]
ItemEmpty == EmptyDict
Items == {ItemOk, ItemDown, ItemWs, ItemBare, ItemDist, ItemEmpty}

Repeat(x, n) == [i \in 1..n |-> x]
Array(items, n) == [kind |-> "array", items |-> items, violations |-> n]
\* a body the primary decoder reads, one only the fallback decoder reads, one
\* neither reads
DocJson(j) == [kind |-> "doc", primary |-> TRUE, fallback |-> TRUE, json |-> j]
DocLenient(j) == [kind |-> "doc", primary |-> FALSE, fallback |-> TRUE, json |-> j]
DocHtml == [kind |-> "doc", primary |-> FALSE, fallback |-> FALSE, json |-> NoJson]
\* the body "null": both decoders read it, as None
DocNull == [kind |-> "doc", primary |-> TRUE, fallback |-> TRUE, json |-> NoJson]

Response(url, status, content) ==
    [kind |-> "response", url |-> url, status_code |-> status,
     content |-> content, encoding |-> "utf-8"]
Raises(name) == [kind |-> "exception", error |-> name]

ViolationCounts == {0, 1, 99, 100, 101, MaxViolations}

\* the catalogs the first agency's URL may serve: an item and one of three
\* others, or up to MaxItems items with one accessURL each
CrawlCatalogs ==
    {Array(<<x, y>>, 0) : x \in Items, y \in {ItemDown, ItemBare, ItemDist}}
        \cup {Array(Repeat(ItemOk, n), 0) : n \in 0..MaxItems}
\* the catalogs the second agency's URL may serve: one item, any number of
\* schema violations; or an empty document that violates the schema
ValidationCatalogs ==
    {Array(<<ItemOk>>, n) : n \in ViolationCounts} \cup {Array(<<>>, 1)}

\* what session.request(method, url) may do
NetOutcomes(url, method) ==
    IF Prepare(url) # "ok" THEN {Raises(Prepare(url))}
    ELSE IF method = "HEAD" THEN
        CASE url = "http://b.gov/data" -> {Raises("ConnectionError")}
          [] url = "http://c.gov/api" -> {Response(url, 404, NoContent)}
          [] OTHER -> {Response(url, 200, NoContent)}
    ELSE IF url = "http://epa.gov/data.json" THEN
        {Raises("ConnectionError"), Response(url, 404, DocHtml)}
            \cup {Response(url, 200, DocJson(j)) : j \in CrawlCatalogs}
    ELSE
        {Raises("Timeout"), Response(url, 404, DocHtml), Response(url, 200, DocHtml),
         Response(url, 200, DocLenient(Array(<<ItemOk>>, 1)))}
            \cup {Response(url, 200, DocJson(j)) : j \in ValidationCatalogs}

\* request_url, had returnval been built from nothing instead of from
\* checker_result
request_url_without_checker_errors(url, method, net) ==
    LET r0 == ResultDict(EmptyDict)
        r1 == IF net.kind = "exception" THEN add_error(r0, Err(net.error)) ELSE r0
        resp == IF net.kind = "exception" THEN NoResponse ELSE net
        r2 == IF resp.kind # "None" /\ resp.status_code >= 400
              THEN add_error(r1, Err("HTTPError")) ELSE r1
    IN  Put(Put(r2, "initial_url", url), "response", resp)

\* request_url(url, method), given what session.request does
request_url(url, method, net) ==
    LET checker_result == check_and_correct_url(url)
        r0 == ResultDict(checker_result)
        r1 == IF net.kind = "exception" THEN add_error(r0, Err(net.error)) ELSE r0
        resp == IF net.kind = "exception" THEN NoResponse ELSE net
        r2 == IF resp.kind # "None" /\ resp.status_code >= 400
              THEN add_error(r1, Err("HTTPError")) ELSE r1
    IN  Put(r2, "response", resp)

valid_url(url) == Get(check_and_correct_url(url), "corrected_url", url)

----------------------------------------------------------------------------
(* parse_json *)

\* the encodings Python has a codec for
KnownEncodings == {"utf-8", "iso-8859-1"}

\* line 334
encoding_of(taskarg) == Get(taskarg, "encoding", "iso-8859-1")

\* json.loads(content, encoding=encoding) returns: the body is one the
\* primary decoder reads and the encoding has a codec
primary_reads(content, encoding) == content.primary /\ encoding \in KnownEncodings

\* the exception that leaves parse_json, or None: content.decode of line 346
\* is in the handler of the first exception and under no try of its own
parse_json_raises(taskarg) ==
    LET content == Get(taskarg, "content", NoContent)
    IN  IF /\ content.kind # "None"
           /\ ~primary_reads(content, encoding_of(taskarg))
           /\ encoding_of(taskarg) \notin KnownEncodings
        THEN "LookupError" ELSE None

\* what parse_json returns, when it returns
parse_json(taskarg) ==
    LET content == Get(taskarg, "content", NoContent)
        r0 == ResultDict(EmptyDict)
    IN  IF content.kind = "None"
        THEN Update(add_error(r0, Err("Exception")), [json |-> NoJson, parse_errors |-> FALSE])
        ELSE IF primary_reads(content, encoding_of(taskarg))
        THEN Update(r0, [json |-> content.json, parse_errors |-> FALSE])
        ELSE LET r1 == add_error(r0, Err("JSONDecodeError"))
             IN  IF content.fallback
                 THEN Update(r1, [json |-> content.json, parse_errors |-> TRUE])
                 ELSE Update(add_error(r1, Err("ValueError")),
                             [json |-> NoJson, parse_errors |-> TRUE])

----------------------------------------------------------------------------
(* The tables *)

DayOfMonth(t) == ((t - 1) % 30) + 1

Max(S) == CHOOSE x \in S : \A y \in S : y <= x

\* URLInspection.objects.create_from_response(resp, save_content)
create_from_response(resp, save_content) ==
    IF resp.kind = "None"
    THEN [requested_url |-> None, status_code |-> 0, content |-> NoContent,
          encoding |-> None, errors |-> <<>>, info |-> EmptyDict,
          report_id |-> NoId, parent_id |-> NoId, created_at |-> Today]
    ELSE [requested_url |-> resp.url, status_code |-> resp.status_code,
          content |-> IF save_content THEN resp.content ELSE NoContent,
          encoding |-> resp.encoding, errors |-> <<>>, info |-> EmptyDict,
          report_id |-> NoId, parent_id |-> NoId, created_at |-> Today]

\* URLInspection.objects.create(requested_url=url, errors=errors, info=info)
create_inspection(url, errors, info) ==
    [requested_url |-> url, status_code |-> 0, content |-> NoContent,
     encoding |-> None, errors |-> errors, info |-> info,
     report_id |-> NoId, parent_id |-> NoId, created_at |-> Today]

\* Report.objects.create(agency_id=.., report_type=.., url=..)
create_report(agency_id, report_type, url) ==
    [agency_id |-> agency_id, report_type |-> report_type, url |-> url,
     messages |-> <<>>]

\* the inspections linked to a report (Report.inspections)
InspectionsOf(rid) == {i \in 1..Len(inspections) : inspections[i].report_id = rid}

\* a stored catalog fetched earlier, on day t
StoredCatalog(t) ==
    [requested_url |-> AgencyUrl(1), status_code |-> 200,
     content |-> DocJson(Array(<<ItemBare>>, 0)), encoding |-> "utf-8",
     errors |-> <<>>, info |-> EmptyDict, report_id |-> NoId,
     parent_id |-> NoId, created_at |-> t]

----------------------------------------------------------------------------
(* get_or_create_inspection *)

\* the rows of recent_responses: the url, no parent, and the day of the month
\* of the latest row of the table
recent_responses(rows, url) ==
    IF Len(rows) = 0 THEN {}
    ELSE LET latest_date == Max({rows[i].created_at : i \in 1..Len(rows)})
         IN  {i \in 1..Len(rows) :
                /\ rows[i].requested_url = url
                /\ DayOfMonth(rows[i].created_at) = DayOfMonth(latest_date)
                /\ rows[i].parent_id = NoId}

\* QuerySet.latest(): the latest created_at, the last inserted among equals
latest(rows, ids) ==
    CHOOSE i \in ids : \A j \in ids :
        \/ rows[j].created_at < rows[i].created_at
        \/ rows[j].created_at = rows[i].created_at /\ j <= i

\* what the one GET of get_or_create_inspection may do; no request is made
\* when a stored row is reused
FetchChoices(rows, url) ==
    IF recent_responses(rows, url) # {} THEN {NoResponse}
    ELSE NetOutcomes(valid_url(url), "GET")

\* the table and the returned ResultDict
get_or_create_inspection(rows, url, net) ==
    IF recent_responses(rows, url) # {}
    THEN [rows |-> rows,
          result |-> ResultDict([response_id |-> latest(rows, recent_responses(rows, url)),
                                 url |-> url])]
    ELSE LET fetch_val == request_url(url, "GET", net)
             resp_data == Get(fetch_val, "response", NoResponse)
         IN  [rows |-> Append(rows, create_from_response(resp_data, TRUE)),
              result |-> ResultDict([response_id |-> Len(rows) + 1, url |-> url])]

----------------------------------------------------------------------------
(* create_data_crawl_report *)

CountMessage(n) == [message |-> "Data catalog contains {0} items", arg |-> n]
UnableMessage == [message |-> "Unable to load json data from '{0}'. Cannot find urls for datasets"]
NoUrlsMessage(title) == [message |-> "No urls found for catalog item titled '{0}'", title |-> title]

IdleCrawl ==
    [pc |-> "idle", agency_id |-> NoId, catalog_url |-> None,
     response_id |-> NoId, jsondata |-> NoJson, report_id |-> NoId, report |-> EmptyDict,
     returnval |-> EmptyDict]

AllIdle == crawl.pc = "idle" /\ \A a \in AgencyIds : chains[a].pc = "idle"

\* crawl_agency_datasets(agency_id): sends create_data_crawl_report
crawl_agency_datasets(a) ==
    /\ AllIdle
    /\ crawl' = [crawl EXCEPT !.pc = "fetch", !.agency_id = a,
                              !.catalog_url = AgencyUrl(a)]
    /\ UNCHANGED <<reports, inspections, itemTasks, urlTasks, chains, catalog_schema, call>>

\* lines 152-160: the catalog's inspection, its content parsed
CrawlFetch ==
    /\ crawl.pc = "fetch"
    /\ \E net \in FetchChoices(inspections, crawl.catalog_url) :
        LET fetcher == get_or_create_inspection(inspections, crawl.catalog_url, net)
            response == fetcher.rows[fetcher.result["response_id"]]
            result_dict == parse_json([content |-> response.content,
                                       encoding |-> response.encoding])
        IN  /\ inspections' = fetcher.rows
            /\ crawl' = [crawl EXCEPT
                    !.pc = IF parse_json_raises([content |-> response.content,
                                                 encoding |-> response.encoding]) # None
                           THEN "failed" ELSE "report",
                    !.response_id = fetcher.result["response_id"],
                    !.jsondata = Get(result_dict, "json", NoJson),
                    !.returnval = ResultDict([agency_id |-> crawl.agency_id,
                                              catalog_url |-> crawl.catalog_url])]
    /\ UNCHANGED <<reports, itemTasks, urlTasks, chains, catalog_schema, call>>

\* new_crawl_report, had the count of items not been appended
new_crawl_report_without_count(agency_id, catalog_url, jsondata) ==
    create_report(agency_id, "DATA_CATALOG_CRAWL", catalog_url)

\* lines 161-169: the report, created and committed in one transaction
new_crawl_report(agency_id, catalog_url, jsondata) ==
    LET report == create_report(agency_id, "DATA_CATALOG_CRAWL", catalog_url)
    IN  IF TruthyJson(jsondata)
        THEN [report EXCEPT !.messages = Append(@, CountMessage(Len(jsondata.items)))]
        ELSE report

\* insert_crawl_report, had the report been created under "if jsondata"
insert_crawl_report_if_json(rows, agency_id, catalog_url, jsondata) ==
    IF TruthyJson(jsondata)
    THEN Append(rows, new_crawl_report(agency_id, catalog_url, jsondata))
    ELSE rows

\* the Report table after the transaction
insert_crawl_report(rows, agency_id, catalog_url, jsondata) ==
    Append(rows, new_crawl_report(agency_id, catalog_url, jsondata))

CrawlCreateReport ==
    /\ crawl.pc = "report"
    /\ LET report == new_crawl_report(crawl.agency_id, crawl.catalog_url, crawl.jsondata)
       IN  /\ reports' = insert_crawl_report(reports, crawl.agency_id, crawl.catalog_url,
                                             crawl.jsondata)
           /\ crawl' = [crawl EXCEPT
                    !.pc = "dispatch",
                    !.report = report,
                    !.report_id = Len(reports) + 1,
                    !.returnval = Put(@, "report_id", Len(reports) + 1)]
    /\ UNCHANGED <<inspections, itemTasks, urlTasks, chains, catalog_schema, call>>

\* item_taskarg, had the report's id been left out of the argument
item_taskarg_without_report(agency_id, report_id, catalog_url, item) ==
    [agency_id |-> agency_id, report_id |-> NoId,
     catalog_url |-> catalog_url, item |-> item]

\* the argument of the inspect_data_catalog_item task of one item
item_taskarg(agency_id, report_id, catalog_url, item) ==
    [agency_id |-> agency_id, report_id |-> report_id,
     catalog_url |-> catalog_url, item |-> item]

\* lines 176-177: the message is appended to the report object in memory; the
\* block holds no report.save()
unable_to_load(rows, report_id, report) == rows

\* lines 170-178: one inspect_data_catalog_item per item, or the message
CrawlDispatch ==
    /\ crawl.pc = "dispatch"
    /\ IF TruthyJson(crawl.jsondata)
       THEN /\ itemTasks' =
                [i \in 1..Len(crawl.jsondata.items) |->
                    [pc |-> "start",
                     taskarg |-> item_taskarg(crawl.agency_id, crawl.report_id,
                                              crawl.catalog_url, crawl.jsondata.items[i]),
                     report |-> EmptyDict]]
            /\ crawl' = [crawl EXCEPT !.pc = "done"]
            /\ UNCHANGED reports
       ELSE /\ crawl' = [crawl EXCEPT
                    !.pc = "done",
                    !.report = [@ EXCEPT !.messages = Append(@, UnableMessage)]]
            /\ reports' = unable_to_load(reports, crawl.report_id, crawl'.report)
            /\ UNCHANGED itemTasks
    /\ UNCHANGED <<inspections, urlTasks, chains, catalog_schema, call>>

----------------------------------------------------------------------------
(* inspect_data_catalog_item *)

url_fields == <<"accessURL", "webService">>
meta_fields == {"title", "accessLevel", "publisher", "modified"}

\* make_task(field, item, orig_task), when item[field] is a true value
make_task(field, item, orig_task) ==
    Put(Put(ResultDict(orig_task), "url", Get(item, field, None)), "urlType", field)

\* find_tasks(item, url_fields, taskarg): the fields that item has and whose
\* value is true, in the order of fields
find_tasks(item, fields, taskarg) ==
    LET found == SelectSeq(fields,
                    LAMBDA f : f \in DOMAIN item /\ TruthyStr(Get(item, f, None)))
    IN  [n \in 1..Len(found) |-> make_task(found[n], item, taskarg)]

\* line 222: the tasks added for the distribution entry d of item
distribution_tasks(item, d, taskarg) == find_tasks(item, url_fields, taskarg)

RECURSIVE Flatten(_)
Flatten(seqs) == IF seqs = <<>> THEN <<>> ELSE Head(seqs) \o Flatten(Tail(seqs))

\* lines 214-222: task_args for a true item; taskarg already holds item_info
task_args(item, taskarg) ==
    LET distribution == Get(item, "distribution", <<>>)
    IN  find_tasks(item, url_fields, taskarg)
            \o Flatten([n \in 1..Len(distribution) |->
                            distribution_tasks(item, distribution[n], taskarg)])

item_info(item) == [key \in meta_fields |-> Get(item, key, None)]
item_title(item) == Get(item, "title", "No title provided.")

\* lines 229-231: the report as read, with the message appended in memory
report_with_message(report, message) ==
    [report EXCEPT !.messages = Append(@, message)]

\* lines 209-231: up to the report being read.  The tasks of the urls are
\* sent, or, for an item with no url, the report is read inside the
\* transaction (a plain SELECT, which takes no lock).
ItemInspect(i) ==
    /\ i \in DOMAIN itemTasks
    /\ itemTasks[i].pc = "start"
    /\ LET item == itemTasks[i].taskarg.item
           report_id == Get(itemTasks[i].taskarg, "report_id", NoId)
           taskarg == Put(itemTasks[i].taskarg, "item_info", item_info(item))
           args == IF DOMAIN item # {} THEN task_args(item, taskarg) ELSE <<>>
       IN  IF DOMAIN item # {} /\ Len(args) > 0
           THEN /\ urlTasks' = urlTasks @@
                        [k \in {<<i, n>> : n \in 1..Len(args)} |->
                            [pc |-> "start", taskarg |-> args[k[2]],
                             result |-> EmptyDict, returnval |-> EmptyDict]]
                /\ itemTasks' = [itemTasks EXCEPT ![i].pc = "done", ![i].taskarg = taskarg]
           ELSE IF DOMAIN item # {} /\ report_id # NoId
           THEN /\ itemTasks' = [itemTasks EXCEPT
                        ![i].pc = "save",
                        ![i].taskarg = taskarg,
                        ![i].report = report_with_message(reports[report_id],
                                            NoUrlsMessage(item_title(item)))]
                /\ UNCHANGED urlTasks
           ELSE /\ itemTasks' = [itemTasks EXCEPT ![i].pc = "done", ![i].taskarg = taskarg]
                /\ UNCHANGED urlTasks
    /\ UNCHANGED <<reports, inspections, crawl, chains, catalog_schema, call>>

\* save_row, had the row been looked up as the latest of the table
save_row_latest(rows, id, row) == [rows EXCEPT ![Len(rows)] = row]

\* Model.save(): every field of the row is written from the object in memory
save_row(rows, id, row) == [rows EXCEPT ![id] = row]

\* line 232 and the commit: report.save()
ItemSave(i) ==
    /\ i \in DOMAIN itemTasks
    /\ itemTasks[i].pc = "save"
    /\ reports' = save_row(reports, itemTasks[i].taskarg["report_id"], itemTasks[i].report)
    /\ itemTasks' = [itemTasks EXCEPT ![i].pc = "done"]
    /\ UNCHANGED <<inspections, crawl, urlTasks, chains, catalog_schema, call>>

----------------------------------------------------------------------------
(* inspect_data_catalog_item_url *)

\* lines 245-256: the HEAD request of the url
UrlFetch(k) ==
    /\ k \in DOMAIN urlTasks
    /\ urlTasks[k].pc = "start"
    /\ LET taskarg == urlTasks[k].taskarg
           url == Get(taskarg, "url", None)
       IN  IF TruthyStr(url)
           THEN \E net \in NetOutcomes(valid_url(url), "HEAD") :
                    LET result == request_url(url, "HEAD", net)
                    IN  urlTasks' = [urlTasks EXCEPT
                            ![k].pc = "persist",
                            ![k].result = result,
                            ![k].returnval = extend_errors(ResultDict(taskarg),
                                                           result["_errors"])]
           ELSE urlTasks' = [urlTasks EXCEPT ![k].pc = "done",
                                             ![k].returnval = ResultDict(taskarg)]
    /\ UNCHANGED <<reports, inspections, crawl, itemTasks, chains, catalog_schema, call>>

\* link_to_report, had the row been saved without its report
link_to_report_never(row, report_id) == row

\* lines 262-263 and 269-270: if report_id: resp_obj.report_id = report_id
link_to_report(row, report_id) ==
    IF report_id # NoId THEN [row EXCEPT !.report_id = report_id] ELSE row

\* lines 248-250: item_info with the urlType
url_item_info(taskarg) ==
    LET info == Get(taskarg, "item_info", EmptyDict)
        urlType == Get(taskarg, "urlType", None)
    IN  IF TruthyStr(urlType) THEN Put(info, "urlType", urlType) ELSE info

\* checked_row, had a check without a response stored the url alone
checked_row_without_errors(taskarg, result) ==
    LET url == Get(taskarg, "url", None)
        response == Get(result, "response", NoResponse)
        report_id == Get(taskarg, "report_id", NoId)
    IN  IF response.kind # "None"
        THEN link_to_report(
                [create_from_response(response, FALSE) EXCEPT
                    !.info = Update(@, url_item_info(taskarg)),
                    !.errors = result["_errors"]],
                report_id)
        ELSE link_to_report(create_inspection(url, <<>>, url_item_info(taskarg)), report_id)

\* lines 257-272: the row of the check, as saved
checked_row(taskarg, result) ==
    LET url == Get(taskarg, "url", None)
        response == Get(result, "response", NoResponse)
        report_id == Get(taskarg, "report_id", NoId)
    IN  IF response.kind # "None"
        THEN link_to_report(
                [create_from_response(response, FALSE) EXCEPT
                    !.info = Update(@, url_item_info(taskarg)),
                    !.errors = result["_errors"]],
                report_id)
        ELSE link_to_report(
                create_inspection(url, result["_errors"], url_item_info(taskarg)),
                report_id)

\* lines 257-272: one transaction inserts the row
UrlPersist(k) ==
    /\ k \in DOMAIN urlTasks
    /\ urlTasks[k].pc = "persist"
    /\ inspections' = Append(inspections,
                             checked_row(urlTasks[k].taskarg, urlTasks[k].result))
    /\ urlTasks' = [urlTasks EXCEPT
            ![k].pc = "done",
            ![k].returnval = Put(@, "response_id", Len(inspections) + 1)]
    /\ UNCHANGED <<reports, crawl, itemTasks, chains, catalog_schema, call>>

----------------------------------------------------------------------------
(* The validation chain of one agency.  Each stage is an operator from the *)
(* tables and its argument to the tables, its return value and whether it  *)
(* raised.                                                                 *)

SCHEMA_ERROR_LIMIT == 100

Min(a, b) == IF a <= b THEN a ELSE b

Outcome(rep, insp, returnval, raised) ==
    [reports |-> rep, inspections |-> insp, returnval |-> returnval, raised |-> raised]

\* lines 298-322
report_for_agency_url(rep, insp, agency_id, url, report_type, net) ==
    LET result == request_url(url, "GET", net)
        returnval == ResultDict(result)
        resp_data == Get(result, "response", NoResponse)
        report_id == Len(rep) + 1
        response_id == Len(insp) + 1
        created == create_from_response(resp_data, TRUE)
        report == IF resp_data.kind # "None"
                  THEN create_report(agency_id, "GENERIC_REPORT", created.requested_url)
                  ELSE create_report(agency_id, "GENERIC_REPORT", None)
        response == [created EXCEPT !.errors = @ \o returnval["_errors"],
                                    !.report_id = report_id]
        raised == IF TruthyResponse(resp_data) /\ ~(resp_data.status_code < 400)
                  THEN "HTTPError" ELSE None
        rv1 == Put(returnval, "report_id", report_id)
        rv2 == IF resp_data.kind # "None" THEN Put(rv1, "response_id", response_id) ELSE rv1
    IN  Outcome(Append(rep, [report EXCEPT !.report_type = report_type]),
                IF resp_data.kind # "None" THEN Append(insp, response) ELSE insp,
                IF raised = None THEN Put(rv2, "response_info", EmptyDict) ELSE rv2,
                raised)

\* URLInspection.objects.get(id=..) and Report.objects.get(id=..) raise
\* DoesNotExist when no row has the id
Exists(rows, id) == id \in 1..Len(rows)

\* lines 360-379
parse_json_from_response(rep, insp, taskarg) ==
    LET response_id == Get(taskarg, "response_id", NoId)
        response_info == Get(taskarg, "response_info", EmptyDict)
        returnval == ResultDict(taskarg)
    IN  IF ~Exists(insp, response_id)
        THEN Outcome(rep, insp, returnval, "DoesNotExist")
        ELSE IF parse_json_raises([content |-> insp[response_id].content,
                                   encoding |-> insp[response_id].encoding]) # None
        THEN Outcome(rep, insp, returnval,
                     parse_json_raises([content |-> insp[response_id].content,
                                        encoding |-> insp[response_id].encoding]))
        ELSE
        LET response == insp[response_id]
            result_dict == parse_json([content |-> response.content,
                                       encoding |-> response.encoding])
            jsondata == Get(result_dict, "json", NoJson)
            parse_errors == Get(result_dict, "parse_errors", FALSE)
            rv1 == IF TruthyJson(jsondata) THEN Put(returnval, "json", jsondata)
                   ELSE returnval
            info == Put(Put(response_info, "json_errors", parse_errors),
                        "is_json", TruthyJson(jsondata))
            errors == Get(result_dict, "errors", <<>>)
            rv2 == IF Len(errors) > 0 THEN extend_errors(rv1, errors) ELSE rv1
            \* response_info is the dict under returnval['response_info'], if any
            rv3 == IF "response_info" \in DOMAIN rv2
                   THEN Put(rv2, "response_info", info) ELSE rv2
        IN  Outcome(rep, insp, rv3, None)

\* validator.iter_errors(jsondata): one error per violation
iter_errors(jsondata) ==
    [n \in 1..jsondata.violations |-> [error |-> "ValidationError", n |-> n]]

\* islice, had the errors not been cut at the limit
islice_unbounded(errors, limit) == errors

\* itertools.islice(errors, limit)
islice(errors, limit) == SubSeq(errors, 1, Min(Len(errors), limit))

\* lines 397-398: add_error for each error, in order
add_errors(rd, errors) ==
    [rd EXCEPT !["_errors"] = rd["_errors"] \o errors,
               !["errors"] = rd["_errors"] \o errors]

\* lines 386-402; schema is the module's catalog_schema
validate_json_catalog(taskarg, schema) ==
    LET jsondata == Get(taskarg, "json", NoJson)
        response_info == Get(taskarg, "response_info", EmptyDict)
        returnval == ResultDict(taskarg)
        checked == TruthyJson(jsondata) /\ schema # None
        is_valid == checked /\ jsondata.violations = 0
        rv1 == IF checked /\ ~is_valid
               THEN add_errors(returnval, islice(iter_errors(jsondata), SCHEMA_ERROR_LIMIT))
               ELSE returnval
        info == Put(response_info, "is_valid_data_catalog", is_valid)
        rv2 == IF "response_info" \in DOMAIN rv1
               THEN Put(rv1, "response_info", info) ELSE rv1
    IN  Put(rv2, "report_type", "DATA_CATALOG_VALIDATION")

\* lines 406-430
save_response_info(rep, insp, taskarg) ==
    LET report_id == Get(taskarg, "report_id", NoId)
        report_type == Get(taskarg, "report_type", "GENERIC_REPORT")
        response_id == Get(taskarg, "response_id", NoId)
        response_info == Pop(Pop(Get(taskarg, "response_info", EmptyDict), "content"), "json")
        rv0 == ResultDict(taskarg)
        returnval == Put(IF "response_info" \in DOMAIN rv0
                         THEN Put(rv0, "response_info", response_info) ELSE rv0,
                         "saved", FALSE)
    IN  IF DOMAIN response_info = {} \/ report_id = NoId
        THEN Outcome(rep, insp, returnval, None)
        ELSE IF ~Exists(rep, report_id) \/ (response_id # NoId /\ ~Exists(insp, response_id))
        THEN Outcome(rep, insp, returnval, "DoesNotExist")
        ELSE
        LET rep1 == save_row(rep, report_id, [rep[report_id] EXCEPT !.report_type = report_type])
            insp1 == IF response_id # NoId
                     THEN save_row(insp, response_id,
                            [insp[response_id] EXCEPT
                                !.info = Update(@, response_info),
                                !.errors = @ \o returnval["_errors"]])
                     ELSE insp
        IN  Outcome(rep1, insp1, Put(returnval, "saved", TRUE), None)

----------------------------------------------------------------------------
(* validate_data_catalogs *)

IdleChain ==
    [pc |-> "idle", arg |-> EmptyDict, net |-> NoResponse, raised |-> None,
     stage |-> None, errbacks |-> <<>>]

\* lines 436-440: the stages whose signature has the option link_error
link_error(stage) == stage = "report_for_agency_url"

\* error_handler(uuid), sent for the task of a stage that raised
error_handler(stage, raised) == [task |-> "error_handler", stage |-> stage, exc |-> raised]

\* the stage that follows a stage of the chain
NextStage(stage) ==
    CASE stage = "report_for_agency_url" -> "parse_json_from_response"
      [] stage = "parse_json_from_response" -> "validate_json_catalog"
      [] stage = "validate_json_catalog" -> "save_response_info"
      [] stage = "save_response_info" -> "done"

\* a stage of a chain has returned or raised: the next stage is sent its
\* return value, or the chain ends and the errbacks of the stage are sent
Advance(chain, out) ==
    IF out.raised = None
    THEN [chain EXCEPT !.pc = NextStage(chain.pc), !.arg = out.returnval]
    ELSE [chain EXCEPT
            !.pc = "failed", !.raised = out.raised, !.stage = chain.pc,
            !.errbacks = IF link_error(chain.pc)
                         THEN Append(@, error_handler(chain.pc, out.raised)) ELSE @]

\* lines 434-442: one chain per agency, all sent at once
validate_data_catalogs ==
    /\ AllIdle
    /\ chains' = [a \in AgencyIds |-> [chains[a] EXCEPT !.pc = "report_for_agency_url"]]
    /\ UNCHANGED <<reports, inspections, crawl, itemTasks, urlTasks, catalog_schema, call>>

ChainReport(a) ==
    /\ chains[a].pc = "report_for_agency_url"
    /\ \E net \in NetOutcomes(valid_url(AgencyUrl(a)), "GET") :
        LET out == report_for_agency_url(reports, inspections, a, AgencyUrl(a),
                                         "DATA_CATALOG_VALIDATION", net)
        IN  /\ reports' = out.reports
            /\ inspections' = out.inspections
            /\ chains' = [chains EXCEPT ![a] = [Advance(chains[a], out) EXCEPT !.net = net]]
    /\ UNCHANGED <<crawl, itemTasks, urlTasks, catalog_schema, call>>

ChainParse(a) ==
    /\ chains[a].pc = "parse_json_from_response"
    /\ LET out == parse_json_from_response(reports, inspections, chains[a].arg)
       IN  chains' = [chains EXCEPT ![a] = Advance(chains[a], out)]
    /\ UNCHANGED <<reports, inspections, crawl, itemTasks, urlTasks, catalog_schema, call>>

ChainValidate(a) ==
    /\ chains[a].pc = "validate_json_catalog"
    /\ LET out == Outcome(reports, inspections,
                          validate_json_catalog(chains[a].arg, catalog_schema), None)
       IN  chains' = [chains EXCEPT ![a] = Advance(chains[a], out)]
    /\ UNCHANGED <<reports, inspections, crawl, itemTasks, urlTasks, catalog_schema, call>>

ChainSave(a) ==
    /\ chains[a].pc = "save_response_info"
    /\ LET out == save_response_info(reports, inspections, chains[a].arg)
       IN  /\ reports' = out.reports
           /\ inspections' = out.inspections
           /\ chains' = [chains EXCEPT ![a] = Advance(chains[a], out)]
    /\ UNCHANGED <<crawl, itemTasks, urlTasks, catalog_schema, call>>

----------------------------------------------------------------------------
(* The tasks that are functions of their arguments, and ResultDict, called *)
(* directly.                                                               *)

\* the urls a task is called with
Urls == Schemeless \cup {"http://", "http://epa.gov/data.json", "http://a.gov/data.csv",
                         "http://c.gov/api"}
Methods == {"GET", "HEAD"}

\* the arguments parse_json is called with: a body or None, with an encoding
\* or without; two bodies come with an encoding that has no codec
ParseArgs ==
    LET contents == {NoContent, DocJson(Array(<<ItemOk>>, 0)), DocJson(Array(<<>>, 0)),
                     DocLenient(Array(<<ItemOk>>, 0)), DocHtml, DocNull}
    IN  {[content |-> c, encoding |-> e] : c \in contents, e \in KnownEncodings}
            \cup {[content |-> c] : c \in contents}
            \cup {[content |-> c, encoding |-> "x-unknown"] :
                        c \in {DocJson(Array(<<ItemOk>>, 0)), DocHtml}}

\* the dicts the pipeline builds its first ResultDict from: nothing, or a
\* dict of arguments (none of them has a key 'errors')
FirstData ==
    {EmptyDict, [initial_url |-> "epa.gov"], [agency_id |-> 1, catalog_url |-> AgencyUrl(1)]}

\* the errors a stage adds
ErrorNames == {"MissingSchema", "HTTPError"}

\* the calls that can be made
DirectCalls ==
    {[task |-> "check_and_correct_url", pc |-> "sent", url |-> u] : u \in Urls}
        \cup {[task |-> "request_url", pc |-> "sent", url |-> u, method |-> m] :
                    u \in Urls, m \in Methods}
        \cup {[task |-> "parse_json", pc |-> "sent", taskarg |-> t] : t \in ParseArgs}
        \cup {[task |-> "ResultDict", pc |-> "sent", data |-> d] : d \in FirstData}

tables == <<reports, inspections, crawl, itemTasks, urlTasks, chains, catalog_schema>>

CallCheckAndCorrectUrl ==
    /\ call.task = "check_and_correct_url" /\ call.pc = "sent"
    /\ call' = [task |-> call.task, pc |-> "returned", url |-> call.url,
                result |-> check_and_correct_url(call.url)]
    /\ UNCHANGED tables

CallRequestUrl ==
    /\ call.task = "request_url" /\ call.pc = "sent"
    /\ \E net \in NetOutcomes(valid_url(call.url), call.method) :
            call' = [task |-> call.task, pc |-> "returned", url |-> call.url,
                     method |-> call.method, net |-> net,
                     result |-> request_url(call.url, call.method, net)]
    /\ UNCHANGED tables

CallParseJson ==
    /\ call.task = "parse_json" /\ call.pc = "sent"
    /\ call' = IF parse_json_raises(call.taskarg) # None
               THEN [task |-> call.task, pc |-> "raised", taskarg |-> call.taskarg,
                     raised |-> parse_json_raises(call.taskarg)]
               ELSE [task |-> call.task, pc |-> "returned", taskarg |-> call.taskarg,
                     result |-> parse_json(call.taskarg)]
    /\ UNCHANGED tables

\* the errors of a dict or of a ResultDict, as hasattr(data, 'errors') sees
\* them
errors_of(data) == Get(data, "_errors", <<>>)

\* returnval = ResultDict(data)
NewResultDict ==
    /\ call.task = "ResultDict" /\ call.pc = "sent"
    /\ call' = [task |-> call.task, pc |-> "built", n |-> 0, op |-> "ResultDict",
                prior |-> call.data, result |-> ResultDict(call.data)]
    /\ UNCHANGED tables

\* returnval.add_error(e)
AddError ==
    /\ call.task = "ResultDict" /\ call.pc = "built" /\ call.n < MaxCalls
    /\ \E e \in ErrorNames :
            call' = [call EXCEPT !.n = @ + 1, !.op = "add_error", !.prior = call.result,
                                 !.result = add_error(call.result, Err(e))]
    /\ UNCHANGED tables

\* returnval.errors.extend(result.errors), result returned by request_url
ExtendErrors ==
    /\ call.task = "ResultDict" /\ call.pc = "built" /\ call.n < MaxCalls
    /\ \E u \in {"", "http://c.gov/api"} :
        \E net \in NetOutcomes(valid_url(u), "HEAD") :
            call' = [call EXCEPT !.n = @ + 1, !.op = "extend", !.prior = call.result,
                                 !.result = extend_errors(call.result,
                                                request_url(u, "HEAD", net)["_errors"])]
    /\ UNCHANGED tables

\* the next stage: returnval = ResultDict(taskarg), and a key set on it
NextResultDict ==
    /\ call.task = "ResultDict" /\ call.pc = "built" /\ call.n < MaxCalls
    /\ call' = [call EXCEPT !.n = @ + 1, !.op = "ResultDict", !.prior = call.result,
                            !.result = Put(ResultDict(call.result), "report_id", call.n + 1)]
    /\ UNCHANGED tables

----------------------------------------------------------------------------
(* The specification *)

Init ==
    /\ reports = <<>>
    /\ inspections \in {<<>>, <<StoredCatalog(Today)>>, <<StoredCatalog(Today - 1)>>}
    /\ crawl = IdleCrawl
    /\ itemTasks = <<>>
    /\ urlTasks = <<>>
    /\ chains = [a \in AgencyIds |-> IdleChain]
    /\ catalog_schema \in {"loaded", None}
    /\ call = NoCall

Next ==
    \/ \E a \in AgencyIds : crawl_agency_datasets(a)
    \/ CrawlFetch
    \/ CrawlCreateReport
    \/ CrawlDispatch
    \/ \E i \in DOMAIN itemTasks : ItemInspect(i)
    \/ \E i \in DOMAIN itemTasks : ItemSave(i)
    \/ \E k \in DOMAIN urlTasks : UrlFetch(k)
    \/ \E k \in DOMAIN urlTasks : UrlPersist(k)
    \/ validate_data_catalogs
    \/ \E a \in AgencyIds : ChainReport(a)
    \/ \E a \in AgencyIds : ChainParse(a)
    \/ \E a \in AgencyIds : ChainValidate(a)
    \/ \E a \in AgencyIds : ChainSave(a)

Spec == Init /\ [][Next]_vars

\* the tasks of a crawl
CrawlNext ==
    \/ \E a \in AgencyIds : crawl_agency_datasets(a)
    \/ CrawlFetch
    \/ CrawlCreateReport
    \/ CrawlDispatch
    \/ \E i \in DOMAIN itemTasks : ItemInspect(i)
    \/ \E i \in DOMAIN itemTasks : ItemSave(i)
    \/ \E k \in DOMAIN urlTasks : UrlFetch(k)
    \/ \E k \in DOMAIN urlTasks : UrlPersist(k)

\* a crawl whose workers run every task that was sent
FairCrawl == Init /\ [][CrawlNext]_vars /\ WF_vars(CrawlNext)

\* one task called directly
DirectInit ==
    /\ reports = <<>>
    /\ inspections = <<>>
    /\ crawl = IdleCrawl
    /\ itemTasks = <<>>
    /\ urlTasks = <<>>
    /\ chains = [a \in AgencyIds |-> IdleChain]
    /\ catalog_schema = None
    /\ call \in DirectCalls

DirectNext ==
    \/ CallCheckAndCorrectUrl
    \/ CallRequestUrl
    \/ CallParseJson
    \/ NewResultDict
    \/ AddError
    \/ ExtendErrors
    \/ NextResultDict

Direct == DirectInit /\ [][DirectNext]_vars

----------------------------------------------------------------------------
(* Properties of the crawl *)

RECURSIVE Count(_, _)
\* how many times x occurs in seq
Count(seq, x) ==
    IF seq = <<>> THEN 0
    ELSE (IF Head(seq) = x THEN 1 ELSE 0) + Count(Tail(seq), x)

CrawlReports == {r \in 1..Len(reports) : reports[r].report_type = "DATA_CATALOG_CRAWL"}

\* no task of the crawl is waiting or running
CrawlQuiet ==
    /\ crawl.pc = "done"
    /\ \A i \in DOMAIN itemTasks : itemTasks[i].pc = "done"
    /\ \A k \in DOMAIN urlTasks : urlTasks[k].pc = "done"

\* an item with exactly one accessURL and no webService or distribution
OneAccessUrl(item) ==
    /\ "accessURL" \in DOMAIN item
    /\ TruthyStr(item["accessURL"])
    /\ "webService" \notin DOMAIN item
    /\ "distribution" \notin DOMAIN item

\* the crawl has parsed a catalog of N >= 1 items with one accessURL each
C1_Catalog ==
    /\ crawl.pc \notin {"idle", "fetch"}
    /\ TruthyJson(crawl.jsondata)
    /\ \A n \in 1..Len(crawl.jsondata.items) : OneAccessUrl(crawl.jsondata.items[n])

C1_Settled ==
    /\ CrawlQuiet
    /\ TruthyJson(crawl.jsondata)
    /\ Cardinality(CrawlReports) = 1
    /\ Cardinality(DOMAIN urlTasks) = Len(crawl.jsondata.items)
    /\ Cardinality(InspectionsOf(crawl.report_id)) = Len(crawl.jsondata.items)

\* C1: a crawl whose catalog is an array of N items with exactly one
\* accessURL each leads, when every sent task is run, to a state where no
\* task is left, one crawl report exists, N url checks were sent and N
\* inspections are linked to the report.
C1_CrawlEndToEnd == C1_Catalog ~> C1_Settled

C1_Witness == C1_Catalog /\ C1_Settled /\ Len(crawl.jsondata.items) = 3

\* the item tasks that went through the append of lines 229-232
Appended(i) == itemTasks[i].pc = "done" /\ itemTasks[i].report # EmptyDict

\* C2: once two item tasks of one report have each appended their message and
\* saved, the stored report holds both messages.
C2_NoLostMessage ==
    \A i \in DOMAIN itemTasks : \A j \in DOMAIN itemTasks :
        (i # j /\ Appended(i) /\ Appended(j)) =>
            LET stored == reports[crawl.report_id].messages
                mi == NoUrlsMessage(item_title(itemTasks[i].taskarg.item))
                mj == NoUrlsMessage(item_title(itemTasks[j].taskarg.item))
            IN  /\ Count(stored, mi) >= 1
                /\ Count(stored, mj) >= 1
                /\ (mi = mj => Count(stored, mi) >= 2)

Checked(k) == urlTasks[k].pc = "done" /\ "response_id" \in DOMAIN urlTasks[k].returnval

\* C3: every finished url check of a report has its own inspection row, the
\* row is linked to the report, and it still is the row the check saved; so
\* the report's inspections contain the rows of all finished sibling checks.
C3_NoLostInspection ==
    \A k \in DOMAIN urlTasks : Checked(k) =>
        LET id == urlTasks[k].returnval["response_id"]
        IN  /\ Exists(inspections, id)
            /\ id \in InspectionsOf(crawl.report_id)
            /\ inspections[id].requested_url \in
                    {urlTasks[k].taskarg["url"], valid_url(urlTasks[k].taskarg["url"])}
            /\ inspections[id].errors = urlTasks[k].result["_errors"]
            /\ \A l \in DOMAIN urlTasks :
                    (l # k /\ Checked(l)) => urlTasks[l].returnval["response_id"] # id

\* two sibling checks were both waiting to save, and both have finished
C3_Witness ==
    /\ Cardinality({k \in DOMAIN urlTasks : Checked(k)}) >= 2
    /\ Cardinality(InspectionsOf(crawl.report_id)) >= 2

\* the crawl has ended without a JSON value
CrawlFailed == crawl.pc = "done" /\ ~TruthyJson(crawl.jsondata)

\* C4: a crawl that obtains no JSON value still stores exactly one report,
\* of type DATA_CATALOG_CRAWL, and sends no item or url task.
C4_ShortCircuit ==
    CrawlFailed =>
        /\ Cardinality(CrawlReports) = 1
        /\ Len(reports) = 1
        /\ crawl.report_id \in CrawlReports
        /\ DOMAIN itemTasks = {}
        /\ DOMAIN urlTasks = {}

\* the catalog URL answered 404
C4_Witness ==
    /\ CrawlFailed
    /\ \E i \in 1..Len(inspections) :
            inspections[i].requested_url = crawl.catalog_url /\ inspections[i].status_code = 404

\* C5: after a crawl that obtained no JSON value, the stored report holds the
\* message that the catalog could not be loaded.
C5_FailureMessageStored ==
    CrawlFailed => Count(reports[crawl.report_id].messages, UnableMessage) >= 1

\* the checkable urls of an item: its accessURL, its webService, and the
\* accessURL of each entry of its distribution, where present
CheckableUrls(item) ==
    LET direct == SelectSeq(url_fields, LAMBDA f : f \in DOMAIN item)
        distribution == Get(item, "distribution", <<>>)
        entries == SelectSeq(distribution, LAMBDA d : "accessURL" \in DOMAIN d)
    IN  [n \in 1..Len(direct) |-> item[direct[n]]]
            \o [n \in 1..Len(entries) |-> entries[n]["accessURL"]]

UrlTasksOf(i) == {k \in DOMAIN urlTasks : k[1] = i}

\* C6: an item task that has run has sent one url check per checkable url of
\* its item, each check carrying its own url.
C6_OneCheckPerUrl ==
    \A i \in DOMAIN itemTasks : itemTasks[i].pc # "start" =>
        LET urls == CheckableUrls(itemTasks[i].taskarg.item)
        IN  /\ UrlTasksOf(i) = {<<i, n>> : n \in 1..Len(urls)}
            /\ \A n \in 1..Len(urls) :
                    <<i, n>> \in DOMAIN urlTasks => urlTasks[<<i, n>>].taskarg["url"] = urls[n]

\* the finished item tasks of items with no checkable url and the title
Unchecked(title) ==
    {i \in DOMAIN itemTasks :
        /\ itemTasks[i].pc = "done"
        /\ CheckableUrls(itemTasks[i].taskarg.item) = <<>>
        /\ item_title(itemTasks[i].taskarg.item) = title}

\* C7: a finished item task whose item has no checkable url has sent no url
\* check, and the stored report holds one message with the item's title for
\* each such task.
C7_ItemWithoutUrlsReported ==
    \A i \in DOMAIN itemTasks :
        LET item == itemTasks[i].taskarg.item
        IN  (i \in Unchecked(item_title(item)) /\ itemTasks[i].taskarg["report_id"] # NoId) =>
                /\ UrlTasksOf(i) = {}
                /\ Count(reports[itemTasks[i].taskarg["report_id"]].messages,
                         NoUrlsMessage(item_title(item)))
                        = Cardinality(Unchecked(item_title(item)))

\* C19: every inspection that has a report_id refers to a stored report; and
\* once an item task or a url check of the crawl exists, the report of the
\* crawl is stored, every such task carries its id, and the first message of
\* the stored report is the count of the catalog's items.
C19_ReportBeforeChecks ==
    /\ \A i \in 1..Len(inspections) :
            inspections[i].report_id # NoId => Exists(reports, inspections[i].report_id)
    /\ (DOMAIN itemTasks # {} \/ DOMAIN urlTasks # {}) =>
            /\ Exists(reports, crawl.report_id)
            /\ crawl.report_id \in CrawlReports
            /\ Len(reports[crawl.report_id].messages) >= 1
            /\ Head(reports[crawl.report_id].messages)
                    = CountMessage(Len(crawl.jsondata.items))
            /\ \A i \in DOMAIN itemTasks :
                    itemTasks[i].taskarg["report_id"] = crawl.report_id
            /\ \A k \in DOMAIN urlTasks :
                    urlTasks[k].taskarg["report_id"] = crawl.report_id

\* a check has stored its inspection and an item task has saved the report
\* again
C19_Witness ==
    /\ InspectionsOf(crawl.report_id) # {}
    /\ \E i \in DOMAIN itemTasks : Appended(i)
    /\ Len(reports[crawl.report_id].messages) >= 2

\* the stored inspections of a url with no parent, created on the day of the
\* call
SameDay(url) ==
    {i \in 1..Len(inspections) :
        /\ inspections[i].requested_url = url
        /\ inspections[i].parent_id = NoId
        /\ inspections[i].created_at = Today}

\* the url checks that ran with a url
Ran(k) == urlTasks[k].pc = "done" /\ TruthyStr(Get(urlTasks[k].taskarg, "url", None))

\* C14: every finished url check whose argument carries a url returns a
\* response_id; the row of that id holds all errors of the fetch, in order,
\* the item info with the urlType, no content, and the report_id of the
\* argument; the rows of different checks differ, and the report has as
\* many inspections as checks have finished.  So it is when the HEAD request
\* gave no response.
C14_CheckLeavesRecord ==
    /\ \A k \in DOMAIN urlTasks : Ran(k) =>
            /\ "response_id" \in DOMAIN urlTasks[k].returnval
            /\ Exists(inspections, urlTasks[k].returnval["response_id"])
            /\ LET row == inspections[urlTasks[k].returnval["response_id"]]
                   taskarg == urlTasks[k].taskarg
                   net == urlTasks[k].result["response"]
               IN  /\ row.errors = urlTasks[k].result["errors"]
                   /\ net.kind = "None" => Len(row.errors) >= 1
                   /\ \A key \in meta_fields :
                            row.info[key] = Get(taskarg["item"], key, None)
                   /\ row.info["urlType"] = taskarg["urlType"]
                   /\ row.content = NoContent
                   /\ row.report_id = taskarg["report_id"]
                   /\ urlTasks[k].returnval["errors"] = row.errors
            /\ \A l \in DOMAIN urlTasks :
                    (l # k /\ Ran(l)) =>
                        urlTasks[l].returnval["response_id"]
                            # urlTasks[k].returnval["response_id"]
    /\ crawl.report_id # NoId =>
            Cardinality(InspectionsOf(crawl.report_id))
                = Cardinality({k \in DOMAIN urlTasks : Ran(k)})

\* a check whose HEAD request gave no response has finished
C14_Witness ==
    \E k \in DOMAIN urlTasks :
        /\ Ran(k)
        /\ urlTasks[k].result["response"] = NoResponse
        /\ inspections[urlTasks[k].returnval["response_id"]].requested_url = "b.gov/data"

\* C13: the step of get_or_create_inspection in a crawl returns the most
\* recent stored inspection of the url with no parent created on the day of
\* the call, and stores nothing, when there is one; otherwise it stores
\* exactly one new inspection and returns its id.
C13_SameDayDeduplication ==
    [][(crawl.pc = "fetch" /\ crawl'.pc # "fetch") =>
            IF SameDay(crawl.catalog_url) # {}
            THEN /\ inspections' = inspections
                 /\ crawl'.response_id = latest(inspections, SameDay(crawl.catalog_url))
            ELSE /\ Len(inspections') = Len(inspections) + 1
                 /\ SubSeq(inspections', 1, Len(inspections)) = inspections
                 /\ crawl'.response_id = Len(inspections')]_vars

----------------------------------------------------------------------------
(* Properties of the validation *)

ChainEnded(a) == chains[a].pc \in {"done", "failed"}

\* every error of errors occurs in stored
AllStored(errors, stored) ==
    \A n \in 1..Len(errors) : \E m \in 1..Len(stored) : stored[m] = errors[n]

\* C8: when the chain of an agency has ended, a report of type
\* DATA_CATALOG_VALIDATION of the agency is stored, with an inspection that
\* holds the is_valid_data_catalog flag and the errors of the chain.
C8_ValidationAlwaysReports ==
    \A a \in AgencyIds : ChainEnded(a) =>
        \E r \in 1..Len(reports) :
            /\ reports[r].agency_id = a
            /\ reports[r].report_type = "DATA_CATALOG_VALIDATION"
            /\ \E i \in InspectionsOf(r) :
                /\ "is_valid_data_catalog" \in DOMAIN inspections[i].info
                /\ AllStored(chains[a].arg["_errors"], inspections[i].errors)

\* validate_json_catalog has returned for a document, with a schema loaded
Validated(a) ==
    /\ chains[a].pc = "save_response_info"
    /\ "json" \in DOMAIN chains[a].arg
    /\ catalog_schema # None

ValidationErrors(errors) == SelectSeq(errors, LAMBDA e : e.error = "ValidationError")

Alone(a, net) ==
    LET o1 == report_for_agency_url(<<>>, <<>>, a, AgencyUrl(a), "DATA_CATALOG_VALIDATION", net)
        o2 == parse_json_from_response(o1.reports, o1.inspections, o1.returnval)
        o4 == save_response_info(o2.reports, o2.inspections,
                                 validate_json_catalog(o2.returnval, catalog_schema))
    IN  IF o1.raised # None \/ o2.raised # None THEN o1 ELSE o4

\* C10: when the chain of an agency has ended, whatever the chains of the
\* other agencies did, its report and its inspection are the rows that the
\* chain stores when it runs alone, and no other inspection is linked to its
\* report.
C10_ChainIndependence ==
    \A a \in AgencyIds : ChainEnded(a) =>
        LET alone == Alone(a, chains[a].net)
            report_id == Get(chains[a].arg, "report_id", NoId)
            response_id == Get(chains[a].arg, "response_id", NoId)
        IN  /\ Exists(reports, report_id)
            /\ reports[report_id] = alone.reports[1]
            /\ reports[report_id].agency_id = a
            /\ IF Len(alone.inspections) = 0
               THEN InspectionsOf(report_id) = {}
               ELSE /\ InspectionsOf(report_id) = {response_id}
                    /\ [inspections[response_id] EXCEPT !.report_id = 1] = alone.inspections[1]

\* both chains have ended, one of them by an exception
C10_Witness ==
    /\ \A a \in AgencyIds : ChainEnded(a)
    /\ \E a \in AgencyIds : chains[a].pc = "failed"
    /\ \E a \in AgencyIds : chains[a].pc = "done"

----------------------------------------------------------------------------
(* Properties of the tasks called directly *)

\* the task called directly has returned
Returned(task) == call.task = task /\ call.pc = "returned"

\* C11 as stated: check_and_correct_url returns a result with the input as
\* initial_url; for a url without a scheme the result has the corrected_url
\* "http://" + input, with one error when the retry succeeds and two when it
\* fails; for a url that prepares, no error and no corrected_url.
C11_AlwaysCorrected ==
    Returned("check_and_correct_url") =>
        LET r == call.result
            retry == Prepare("http://" \o call.url)
        IN  /\ r["initial_url"] = call.url
            /\ call.url \in Schemeless =>
                    /\ "corrected_url" \in DOMAIN r
                    /\ r["corrected_url"] = "http://" \o call.url
                    /\ Len(r["errors"]) = (IF retry = "ok" THEN 1 ELSE 2)
            /\ Prepare(call.url) = "ok" =>
                    r["errors"] = <<>> /\ "corrected_url" \notin DOMAIN r

\* C11, amended: for a url without a scheme, when the retry with "http://"
\* prepares, the result has one error (MissingSchema) and the corrected_url
\* is the prepared form of "http://" + input; when the retry fails, the
\* result has the two errors in order and no corrected_url; for a url that
\* prepares, no error and no corrected_url.
C11_UrlCorrection ==
    Returned("check_and_correct_url") =>
        LET r == call.result
            retry == Prepare("http://" \o call.url)
        IN  /\ r["initial_url"] = call.url
            /\ r["errors"] = r["_errors"]
            /\ (call.url \in Schemeless /\ retry = "ok") =>
                    /\ "corrected_url" \in DOMAIN r
                    /\ r["corrected_url"] = PreparedUrl("http://" \o call.url)
                    /\ Prepare(r["corrected_url"]) = "ok"
                    /\ r["errors"] = <<Err("MissingSchema")>>
            /\ (call.url \in Schemeless /\ retry # "ok") =>
                    /\ "corrected_url" \notin DOMAIN r
                    /\ r["errors"] = <<Err("MissingSchema"), Err(retry)>>
            /\ Prepare(call.url) = "ok" =>
                    r["errors"] = <<>> /\ "corrected_url" \notin DOMAIN r

\* a url without a scheme was corrected
C11_Witness ==
    /\ Returned("check_and_correct_url")
    /\ call.url = "nasa.gov/data.json"
    /\ "corrected_url" \in DOMAIN call.result
    /\ Len(call.result["errors"]) = 1

\* C12: parse_json returns for every content; when both decoders fail the
\* result has no JSON value, parse_errors true and the two decoder errors in
\* order; and a result with no JSON value has at least one error and
\* parse_errors true.
C12_ParserNeverRaises ==
    (call.task = "parse_json" /\ call.pc # "sent") =>
        /\ call.pc = "returned"
        /\ LET content == Get(call.taskarg, "content", NoContent)
               r == call.result
           IN  /\ (/\ content.kind # "None"
                    /\ ~primary_reads(content, encoding_of(call.taskarg))
                    /\ ~content.fallback) =>
                        /\ r["json"] = NoJson
                        /\ r["parse_errors"]
                        /\ r["errors"] = <<Err("JSONDecodeError"), Err("ValueError")>>
               /\ r["json"] = NoJson => (Len(r["errors"]) >= 1 /\ r["parse_errors"])

\* C17: request_url returns for every url and method; the result holds the
\* key 'response'; its errors are the errors of check_and_correct_url, in
\* order, followed by one error when the request raised (the response is
\* then None), by one error when the response has an error status (the
\* response is then in the result), and by nothing otherwise.
C17_FetcherKeepsResponse ==
    /\ (call.task = "request_url" /\ call.pc = "sent") => ENABLED CallRequestUrl
    /\ Returned("request_url") =>
        LET r == call.result
            checked == check_and_correct_url(call.url)["errors"]
            net == call.net
        IN  /\ "response" \in DOMAIN r
            /\ r["errors"] = r["_errors"]
            /\ Len(r["errors"]) >= Len(checked)
            /\ SubSeq(r["errors"], 1, Len(checked)) = checked
            /\ net.kind = "exception" =>
                    /\ r["response"] = NoResponse
                    /\ r["errors"] = checked \o <<Err(net.error)>>
            /\ net.kind = "response" =>
                    /\ r["response"] = net
                    /\ r["errors"] = checked \o
                            (IF net.status_code >= 400 THEN <<Err("HTTPError")>> ELSE <<>>)

\* a corrected url answered with an error status
C17_Witness ==
    /\ Returned("request_url")
    /\ call.url = "nasa.gov/data.json"
    /\ call.result["response"].kind = "response"
    /\ call.result["errors"] = <<Err("MissingSchema"), Err("HTTPError")>>

\* C18: a ResultDict built from a dict or from a prior ResultDict holds the
\* errors of the prior one, in order, and no other; add_error adds one error
\* at the end; after every construction, add_error and extend the errors
\* before the call are a prefix of the errors after it, and the key 'errors'
\* holds the list of the property errors.
C18_ErrorsAppendOnly ==
    (call.task = "ResultDict" /\ call.pc = "built") =>
        LET before == errors_of(call.prior)
            after == call.result["_errors"]
        IN  /\ Len(after) >= Len(before)
            /\ SubSeq(after, 1, Len(before)) = before
            /\ call.result["errors"] = after
            /\ call.op = "ResultDict" => after = before
            /\ call.op = "add_error" => Len(after) = Len(before) + 1

\* a ResultDict was built from a prior result that held two errors
C18_Witness ==
    /\ call.task = "ResultDict" /\ call.pc = "built"
    /\ call.op = "ResultDict"
    /\ Len(errors_of(call.prior)) >= 2
    /\ call.result["errors"] = errors_of(call.prior)

----------------------------------------------------------------------------
(* Properties of the validation, continued *)

\* the JSON value of the document that the chain of agency a fetched, or None
Document(a) ==
    LET response_id == Get(chains[a].arg, "response_id", NoId)
    IN  IF Exists(inspections, response_id)
           /\ inspections[response_id].content.kind = "doc"
        THEN inspections[response_id].content.json
        ELSE NoJson

\* validate_json_catalog has returned in the chain of agency a
AfterValidation(a) == chains[a].pc \in {"save_response_info", "done"}

\* what the result of validate_json_catalog shows: the flag and the
\* validation errors
Shown(a) ==
    [is_valid |-> chains[a].arg["response_info"]["is_valid_data_catalog"],
     errors |-> ValidationErrors(chains[a].arg["errors"])]

\* C15: with no schema configured validate_json_catalog returns, with the
\* flag false and no validation error; with a schema loaded and a document
\* that violates it, the flag and the validation errors are never both the
\* same as that.
C15_NoSchemaIsDistinct ==
    \A a \in AgencyIds : AfterValidation(a) =>
        /\ catalog_schema = None => Shown(a) = [is_valid |-> FALSE, errors |-> <<>>]
        /\ (/\ catalog_schema # None
            /\ Document(a).kind = "array"
            /\ Document(a).violations > 0) =>
                Shown(a) # [is_valid |-> FALSE, errors |-> <<>>]

\* C16: when a stage of the chain of an agency has raised, error_handler was
\* sent once, for that stage and its exception, and no later stage runs: the
\* chain stays where it failed.
C16_ChainErrorHook ==
    \A a \in AgencyIds : chains[a].pc = "failed" =>
        /\ chains[a].raised # None
        /\ chains[a].errbacks = <<error_handler(chains[a].stage, chains[a].raised)>>
        /\ ~ENABLED (ChainReport(a) \/ ChainParse(a) \/ ChainValidate(a) \/ ChainSave(a))

\* C20: when the chain of an agency has run to its end, every error of the
\* chain is in the errors of the stored inspection, and no error is there
\* twice.
C20_NoDuplicatedErrors ==
    \A a \in AgencyIds :
        (chains[a].pc = "done" /\ Exists(inspections, Get(chains[a].arg, "response_id", NoId))) =>
            LET stored == inspections[chains[a].arg["response_id"]].errors
            IN  /\ AllStored(chains[a].arg["_errors"], stored)
                /\ \A m \in 1..Len(stored) : \A n \in 1..Len(stored) :
                        m # n => stored[m] # stored[n]

====
